---- MODULE Spec2Model ----
(***************************************************************************)
(* A model of hangman.py: German normalization, the HangmanGame guess      *)
(* state machine and the run_hangman driver loop.                          *)
(*                                                                         *)
(* A Python str is a sequence of one-character strings; the sets `guessed` *)
(* and `wrong` hold such sequences (a letter is a sequence of length 1).   *)
(***************************************************************************)
EXTENDS Integers, Sequences, FiniteSets, TLC

VARIABLES
    pc,             \* where the program is: see the two specifications below
    original_word,  \* HangmanGame.original_word
    max_wrong,      \* HangmanGame.max_wrong
    word,           \* HangmanGame.word (normalized)
    has_eszett,     \* HangmanGame.has_eszett
    guessed,        \* HangmanGame.guessed
    wrong,          \* HangmanGame.wrong
    last,           \* the latest guess call: argument, result and the sets before it
    calls,          \* number of guess calls made on the game
    moves,          \* history: the guess calls that changed guessed or wrong
    streak,         \* history: the letters guessed while every call so far was a
                    \* distinct single-letter guess that is not in the target
    nframes,        \* run_hangman: len(frames)
    frames,         \* Terminal.frames
    first_draw,     \* Terminal._first_draw
    draw_arg,       \* the argument of the latest Terminal.draw call
    drawn,          \* the frame index Terminal.draw wrote last
    screen,         \* the padded frame Terminal.draw wrote last
    status,         \* run_hangman: the status block format_status gave last
    ret,            \* run_hangman: the value returned, or a marker
    text,           \* normalize_word_de on its own: the string at hand
    text_before,    \* the argument of the latest normalize_word_de call
    passes          \* the number of normalize_word_de calls made on the string

vars == <<pc, original_word, max_wrong, word, has_eszett, guessed, wrong,
          last, calls, moves, streak, nframes, frames, first_draw, draw_arg, drawn,
          screen, status, ret, text, text_before, passes>>

-----------------------------------------------------------------------------
(* Bounds of the model *)

\* guess calls made on one game object in specification Spec
MaxCalls == 3
\* longest frame sequence handed to run_hangman in specification SpecDriver
MaxFrames == 3
\* passes of the while loop of run_hangman in specification SpecDriver
MaxTurns == 5
\* largest wrong-guess count, of either sign, handed to Terminal.draw in
\* specification SpecDraw
MaxCount == 13
\* longest string handed to normalize_word_de in specification SpecNorm
MaxText == 3

-----------------------------------------------------------------------------
(* Characters and str methods *)

\* str.casefold on one character: the result is a string (ß folds to "ss")
casefoldChar(c) ==
    CASE c = "A" -> <<"a">> [] c = "B" -> <<"b">> [] c = "C" -> <<"c">>
      [] c = "D" -> <<"d">> [] c = "E" -> <<"e">> [] c = "F" -> <<"f">>
      [] c = "G" -> <<"g">> [] c = "H" -> <<"h">> [] c = "I" -> <<"i">>
      [] c = "J" -> <<"j">> [] c = "K" -> <<"k">> [] c = "L" -> <<"l">>
      [] c = "M" -> <<"m">> [] c = "N" -> <<"n">> [] c = "O" -> <<"o">>
      [] c = "P" -> <<"p">> [] c = "Q" -> <<"q">> [] c = "R" -> <<"r">>
      [] c = "S" -> <<"s">> [] c = "T" -> <<"t">> [] c = "U" -> <<"u">>
      [] c = "V" -> <<"v">> [] c = "W" -> <<"w">> [] c = "X" -> <<"x">>
      [] c = "Y" -> <<"y">> [] c = "Z" -> <<"z">>
      [] c = "Ä" -> <<"ä">> [] c = "Ö" -> <<"ö">> [] c = "Ü" -> <<"ü">>
      [] c = "ß" -> <<"s", "s">> [] c = "ẞ" -> <<"s", "s">>
      [] OTHER -> <<c>>

RECURSIVE casefold(_)
casefold(s) ==
    IF s = <<>> THEN <<>> ELSE casefoldChar(Head(s)) \o casefold(Tail(s))

\* the characters of the model that are not letters
NonAlpha == {" ", "-", "1", "4"}

isalphaChar(c) == c \notin NonAlpha

\* str.isalpha: every character is a letter and there is at least one
isalpha(s) == s # <<>> /\ \A i \in 1..Len(s) : isalphaChar(s[i])

isspace(c) == c = " "

RECURSIVE lstrip(_)
lstrip(s) ==
    IF s # <<>> /\ isspace(Head(s)) THEN lstrip(Tail(s)) ELSE s

RECURSIVE rstrip(_)
rstrip(s) ==
    IF s # <<>> /\ isspace(s[Len(s)]) THEN rstrip(SubSeq(s, 1, Len(s) - 1)) ELSE s

strip(s) == rstrip(lstrip(s))

-----------------------------------------------------------------------------
(* German normalization *)

normalizeChar(ch) ==
    CASE ch = "ä" -> <<"a", "e">>
      [] ch = "ö" -> <<"o", "e">>
      [] ch = "ü" -> <<"u", "e">>
      [] ch = "ß" -> <<"s", "s">>
      [] OTHER -> <<ch>>

RECURSIVE normalizeFolded(_)
normalizeFolded(s) ==
    IF s = <<>> THEN <<>> ELSE normalizeChar(Head(s)) \o normalizeFolded(Tail(s))

\* the replacements made before the case folding
normalize_fold_last(s) == casefold(normalizeFolded(s))

normalize_word_de(s) == normalizeFolded(casefold(s))

-----------------------------------------------------------------------------
(* Word source *)

\* The lines of a word list file (path.read_text().splitlines()): words with
\* umlauts, hyphens, digits, one of two characters, an empty line, a line
\* with blanks around the word and a line with a blank inside.
WordFile ==
    << <<"B", "ä", "r">>,
       <<>>,
       <<"Ö", "l">>,
       <<" ", "H", "u", "t", " ">>,
       <<"z", "u", " ", "F", "u", "ß">>,
       <<"j", "a">>,
       <<"U", "-", "B", "a", "h", "n">>,
       <<"A", "4">> >>

skip_line(w) == w = <<>> \/ \E i \in 1..Len(w) : isspace(w[i])

RECURSIVE load_words(_)
load_words(lines) ==
    IF lines = <<>> THEN <<>>
    ELSE LET w == strip(Head(lines))
         IN  IF skip_line(w) THEN load_words(Tail(lines))
             ELSE <<w>> \o load_words(Tail(lines))

\* the built-in list pick_word falls back to
BuiltinWords ==
    << <<"Ü", "b", "e", "r", "r", "a", "s", "c", "h", "u", "n", "g">>,
       <<"S", "t", "r", "a", "ß", "e", "n", "b", "a", "h", "n">>,
       <<"W", "ö", "r", "t", "e", "r", "b", "u", "c", "h">>,
       <<"P", "r", "o", "g", "r", "a", "m", "m", "i", "e", "r", "e", "n">>,
       <<"K", "ü", "n", "s", "t", "l", "i", "c", "h", "e",
         "I", "n", "t", "e", "l", "l", "i", "g", "e", "n", "z">>,
       <<"g", "r", "ö", "ß", "e", "r">> >>

\* random.choice(words): the set of words it may return
pick_word(words) ==
    LET ws == IF words = <<>> THEN BuiltinWords ELSE words
    IN  { ws[i] : i \in 1..Len(ws) }

\* main: words = load_words(path) if path else []
WordSources == { <<>>, load_words(WordFile) }

-----------------------------------------------------------------------------
(* HangmanGame *)

\* a ceiling of 0 let through
ceiling_rejected_below_zero(m) == m < 0

\* __post_init__: the check that raises ValueError
ceiling_rejected(m) == m < 1

\* __post_init__: has_eszett
eszett_flag(original) ==
    LET f == casefold(original) IN \E i \in 1..Len(f) : f[i] = "ß"

\* {c for c in self.word if c.isalpha()}, each letter as a string
target_letters(w) == { <<w[i]>> : i \in { j \in 1..Len(w) : isalphaChar(w[j]) } }

wrong_count == Cardinality(wrong)

\* won only when every character of the word, letter or not, is guessed
is_won_every_character == { <<word[i]>> : i \in 1..Len(word) } \subseteq guessed

is_won == target_letters(word) \subseteq guessed

\* lost only once the ceiling is exceeded
is_lost_strict == wrong_count > max_wrong

is_lost == wrong_count >= max_wrong

\* full-word guesses of more than 3 characters only
is_full_word_guess_gt3(g) == Len(g) > 3 /\ isalpha(g)

\* guess: the test that takes the full-word branch
is_full_word_guess(g) == Len(g) > 2 /\ isalpha(g)

\* guess: the four alias tests and the z alias
is_alias(g, eszett) ==
    \/ g \in { <<"ä">>, <<"a", "e">>, <<"ö">>, <<"o", "e">>, <<"ü">>, <<"u", "e">> }
    \/ g \in { <<"ß">>, <<"s", "s">>, <<"s", "z">> }
    \/ (g = <<"z">> /\ eszett)

\* "z" taken for s whatever the eszett flag says
resolve_letters_z_always(g, eszett) ==
    IF g \in { <<"ä">>, <<"a", "e">> } THEN <<"a", "e">>
    ELSE IF g \in { <<"ö">>, <<"o", "e">> } THEN <<"o", "e">>
    ELSE IF g \in { <<"ü">>, <<"u", "e">> } THEN <<"u", "e">>
    ELSE IF g \in { <<"ß">>, <<"s", "s">>, <<"s", "z">> } THEN <<"s">>
    ELSE IF g = <<"z">> THEN <<"s">>
    ELSE <<g[1]>>

\* guess: the letter list of an input that is not a full-word guess
resolve_letters(g, eszett) ==
    IF g \in { <<"ä">>, <<"a", "e">> } THEN <<"a", "e">>
    ELSE IF g \in { <<"ö">>, <<"o", "e">> } THEN <<"o", "e">>
    ELSE IF g \in { <<"ü">>, <<"u", "e">> } THEN <<"u", "e">>
    ELSE IF g \in { <<"ß">>, <<"s", "s">>, <<"s", "z">> } THEN <<"s">>
    ELSE IF g = <<"z">> /\ eszett THEN <<"s">>
    ELSE <<g[1]>>

\* the "double guess" test looking at the guessed letters only
already_tried_guessed_only(letters, gs, ws) ==
    \A i \in 1..Len(letters) : <<letters[i]>> \in gs

\* guess: the "double guess" test
already_tried(letters, gs, ws) ==
    \A i \in 1..Len(letters) : <<letters[i]>> \in gs \/ <<letters[i]>> \in ws

\* on a hit, every letter of the list is revealed
hits_whole_list(letters, w) ==
    IF \E i \in 1..Len(letters) : <<letters[i]>> \in target_letters(w)
    THEN { <<letters[i]>> : i \in 1..Len(letters) }
    ELSE {}

\* guess: the letters of the list that are in the target
hits(letters, w) ==
    { <<letters[i]>> : i \in { j \in 1..Len(letters) : <<letters[j]>> \in target_letters(w) } }

\* one token for each character of a missed input
add_token_per_character(ws, g) == ws \cup { <<g[i]>> : i \in 1..Len(g) }

\* the token put in place of the wrong attempts so far
add_token_replacing(ws, g) == {g}

\* self.wrong.add(g)
add_token(ws, g) == ws \cup {g}

Result(a, m, gs, ws) == [applied |-> a, msg |-> m, guessed |-> gs, wrong |-> ws]

\* guess(raw) on the game (w, eszett, gs, ws): what it returns and the sets after it
guess(raw, w, eszett, gs, ws) ==
    LET r == strip(raw)
        g == casefold(r)
    IN  IF r = <<>> THEN Result(FALSE, "Bitte eingeben", gs, ws)
        ELSE IF is_full_word_guess(g) THEN
            IF normalize_word_de(g) = w
            THEN Result(TRUE, "Wort erraten", gs \cup target_letters(w), ws)
            ELSE Result(TRUE, "Nope", gs, add_token(ws, g))
        ELSE IF ~is_alias(g, eszett) /\ ~isalphaChar(g[1])
            THEN Result(FALSE, "Nur Buchstaben bitte", gs, ws)
        ELSE LET letters == resolve_letters(g, eszett)
             IN  IF already_tried(letters, gs, ws)
                 THEN Result(FALSE, "hattest du schon", gs, ws)
                 ELSE IF hits(letters, w) # {}
                 THEN Result(TRUE, "Treffer", gs \cup hits(letters, w), ws)
                 ELSE Result(TRUE, "Leider daneben", gs, add_token(ws, g))

-----------------------------------------------------------------------------
(* Terminal *)

\* A frame is the sequence of the pieces of its string between newlines
\* (str.split("\n")): the string "\nA\n" is <<"", "A", "">>.

\* FIGURES, after list(reversed(...)): from the empty gallows to the full figure
FIGURES ==
    <<
       << "", "", "", "", "", "", "", "##########" >>,
       << "", " |", " |", " |", " |", " |", " |", "##########", "" >>,
       << "", " |", " |", " |", " |", " |", "/|", "##########", "" >>,
       << "", " |", " |", " |", " |", " |", "/|\\", "##########", "" >>,
       << "", "-+-----", " |", " |", " |", " |", "/|\\", "##########", "" >>,
       << "", "-+-----", " |/", " |", " |", " |", "/|\\", "##########", "" >>,
       << "", "-+---+-", " |/  O", " |", " |", " |", "/|\\", "##########", "" >>,
       << "", "-+---+-", " |/  O", " |   |", " |", " |", "/|\\", "##########", "" >>,
       << "", "-+---+-", " |/  O", " |  /|", " |", " |", "/|\\", "##########", "" >>,
       << "", "-+---+-", " |/  O", " |  /|\\", " |", " |", "/|\\", "##########", "" >>,
       << "", "-+---+-", " |/  O", " |  /|\\", " |  /", " |", "/|\\", "##########", "" >>,
       << "", "-+---+-", " |/  O", " |  /|\\", " |  / \\", " |", "/|\\", "##########", "" >>
    >>

\* f.rstrip("\n")
RECURSIVE rstrip_newlines(_)
rstrip_newlines(f) ==
    IF Len(f) > 1 /\ f[Len(f)] = ""
    THEN rstrip_newlines(SubSeq(f, 1, Len(f) - 1))
    ELSE f

\* str.splitlines: a newline at the end opens no further line
splitlines(f) ==
    IF f = <<"">> THEN <<>>
    ELSE IF f[Len(f)] = "" THEN SubSeq(f, 1, Len(f) - 1)
    ELSE f

\* Terminal.__init__: self.frames
terminal_frames(fs) == [i \in 1..Len(fs) |-> rstrip_newlines(fs[i])]

RECURSIVE max_lines(_)
max_lines(fs) ==
    IF fs = <<>> THEN 0
    ELSE LET rest == max_lines(Tail(fs))
             here == Len(splitlines(Head(fs)))
         IN  IF here >= rest THEN here ELSE rest

\* Terminal.__init__: self.h
height(fs) == max_lines(fs)

\* Terminal._pad: the lines, blank lines up to h, and the newline at the end
pad(frame, h) ==
    LET lines == splitlines(frame)
    IN  lines \o [i \in 1..(h - Len(lines)) |-> ""] \o <<"">>

Max(a, b) == IF a >= b THEN a ELSE b
Min(a, b) == IF a <= b THEN a ELSE b

\* the clamp without its lower end
draw_index_no_floor(idx, n) == Min(idx, n - 1)

\* Terminal.draw: the clamped index, for n = len(self.frames)
draw_index(idx, n) == Max(0, Min(idx, n - 1))

\* self.frames[idx] raises IndexError
index_error(idx, n) == idx >= n \/ idx < -n

\* self.frames[idx], a negative idx counting from the end
frame_at(fs, idx) == IF idx >= 0 THEN fs[idx + 1] ELSE fs[Len(fs) + idx + 1]

\* term.draw(c): what it leaves in the terminal object and on the screen
\* (the cursor and clear sequences written before the frame are left out)
TermDraw(c) ==
    LET idx == draw_index(c, Len(frames))
    IN  /\ draw_arg' = c
        /\ drawn' = idx
        /\ first_draw' = FALSE
        /\ screen' = IF index_error(idx, Len(frames)) THEN screen
                     ELSE pad(frame_at(frames, idx), height(frames))

-----------------------------------------------------------------------------
(* masked_word and format_status *)

\* the characters of the model in the order of their code points
CodeOrder ==
    << " ", "-", "1", "4",
       "A", "B", "C", "D", "E", "F", "G", "H", "I", "J", "K", "L", "M",
       "N", "O", "P", "Q", "R", "S", "T", "U", "V", "W", "X", "Y", "Z", "_",
       "a", "b", "c", "d", "e", "f", "g", "h", "i", "j", "k", "l", "m",
       "n", "o", "p", "q", "r", "s", "t", "u", "v", "w", "x", "y", "z",
       "Ä", "Ö", "Ü", "ß", "ä", "ö", "ü", "ẞ" >>

ord(c) == CHOOSE i \in 1..Len(CodeOrder) : CodeOrder[i] = c

\* a < b for two str
RECURSIVE str_less(_, _)
str_less(a, b) ==
    IF b = <<>> THEN FALSE
    ELSE IF a = <<>> THEN TRUE
    ELSE IF Head(a) = Head(b) THEN str_less(Tail(a), Tail(b))
    ELSE ord(Head(a)) < ord(Head(b))

\* sorted(...) of a set of str
RECURSIVE sorted(_)
sorted(S) ==
    IF S = {} THEN <<>>
    ELSE LET least == CHOOSE x \in S : \A y \in S \ {x} : str_less(x, y)
         IN  <<least>> \o sorted(S \ {least})

\* " ".join(items)
RECURSIVE join(_)
join(items) ==
    IF items = <<>> THEN <<>>
    ELSE IF Len(items) = 1 THEN Head(items)
    ELSE Head(items) \o <<" ">> \o join(Tail(items))

\* the placeholder shown for a letter that is guessed and the letter for one
\* that is not
masked_word_inverted(w, gs) ==
    join([i \in 1..Len(w) |->
            IF isalphaChar(w[i])
            THEN (IF <<w[i]>> \in gs THEN <<"_">> ELSE <<w[i]>>)
            ELSE <<w[i]>>])

\* HangmanGame.masked_word
masked_word(w, gs) ==
    join([i \in 1..Len(w) |->
            IF isalphaChar(w[i])
            THEN (IF <<w[i]>> \in gs THEN <<w[i]>> ELSE <<"_">>)
            ELSE <<w[i]>>])

\* format_status: the three lines Wort, Falsch, Übrig
format_status(w, gs, ws, m) ==
    [Wort |-> masked_word(w, gs),
     Falsch |-> IF ws # {} THEN join(sorted(ws)) ELSE <<"-">>,
     Uebrig |-> m - Cardinality(ws)]

NoStatus == [Wort |-> <<>>, Falsch |-> <<>>, Uebrig |-> 0]

-----------------------------------------------------------------------------
(* What the player types *)

UpperChars ==
    { "A", "B", "C", "D", "E", "F", "G", "H", "I", "J", "K", "L", "M", "N",
      "O", "P", "Q", "R", "S", "T", "U", "V", "W", "X", "Y", "Z", "Ä", "Ö", "Ü" }

upperChar(c) ==
    IF c = "ß" THEN <<"S", "S">>
    ELSE IF \E u \in UpperChars : casefoldChar(u) = <<c>>
         THEN << CHOOSE u \in UpperChars : casefoldChar(u) = <<c>> >>
         ELSE <<c>>

lowerChar(c) == IF c \in UpperChars THEN casefoldChar(c) ELSE <<c>>

RECURSIVE upper(_)
upper(s) == IF s = <<>> THEN <<>> ELSE upperChar(Head(s)) \o upper(Tail(s))

RECURSIVE lower(_)
lower(s) == IF s = <<>> THEN <<>> ELSE lowerChar(Head(s)) \o lower(Tail(s))

\* the word as written, in capitals and in small letters
CaseVariants(w) == { w, upper(w), lower(w) }

\* inputs tried against every word: empty and blank, single letters, a digit,
\* the aliases, two characters that are no alias, a word that is no target
CommonRaws ==
    { <<>>, <<" ">>,
      <<"a">>, <<"A">>, <<"e">>, <<"s">>, <<"z">>, <<" ", "x", " ">>,
      <<"1">>,
      <<"a", "e">>, <<"ä">>, <<"o", "e">>, <<"ü">>, <<"ß">>, <<"s", "z">>,
      <<"x", "y">>,
      <<"h", "a", "t">> }

Raws(w) == CommonRaws \cup CaseVariants(w)

\* The alias table as the specification gives it: the letters an input
\* stands for, {} when the input is no alias. `flag` is the game's eszett flag.
SaidAliasLetters(g, flag) ==
    IF g \in { <<"ä">>, <<"a", "e">> } THEN {"a", "e"}
    ELSE IF g \in { <<"ö">>, <<"o", "e">> } THEN {"o", "e"}
    ELSE IF g \in { <<"ü">>, <<"u", "e">> } THEN {"u", "e"}
    ELSE IF g \in { <<"ß">>, <<"s", "s">>, <<"s", "z">> } THEN {"s"}
    ELSE IF g = <<"z">> /\ flag THEN {"s"}
    ELSE {}

\* the input is empty or blank
SaidEmpty(raw) == \A i \in 1..Len(raw) : raw[i] = " "

\* the trimmed, case-folded input g is a full-word guess
SaidFullWord(g) == Len(g) > 2 /\ \A i \in 1..Len(g) : g[i] \notin NonAlpha

\* the letters of the normalized target w
SaidTarget(w) == { w[i] : i \in 1..Len(w) } \ NonAlpha

\* raw is one letter (no umlaut, no ß) that is not in the target w and not
\* among the letters `before`
LetterMiss(raw, w, before) ==
    LET r == strip(raw)
        g == casefold(r)
    IN  /\ Len(r) = 1
        /\ Len(g) = 1
        /\ g[1] \notin NonAlpha
        /\ SaidAliasLetters(g, FALSE) = {}
        /\ g[1] \notin SaidTarget(w)
        /\ g \notin before

-----------------------------------------------------------------------------
(* The game object on its own: one construction, then guess calls *)

NoCall == [raw |-> <<>>, applied |-> FALSE, msg |-> "", guessed |-> {}, wrong |-> {}]

Init ==
    /\ pc = "init"
    /\ original_word = <<>>
    /\ max_wrong = 0
    /\ word = <<>>
    /\ has_eszett = FALSE
    /\ guessed = {}
    /\ wrong = {}
    /\ last = NoCall
    /\ calls = 0
    /\ moves = 0
    /\ streak = [pure |-> TRUE, letters |-> {}]
    /\ nframes = 0
    /\ frames = <<>>
    /\ first_draw = TRUE
    /\ draw_arg = -1
    /\ drawn = -1
    /\ screen = <<>>
    /\ status = NoStatus
    /\ ret = -1
    /\ text = <<>>
    /\ text_before = <<>>
    /\ passes = 0

\* HangmanGame(original_word=w, max_wrong=m): the fields after __post_init__,
\* or ValueError and no object
NewGame(w, m) ==
    IF ceiling_rejected(m)
    THEN /\ pc' = "ValueError"
         /\ UNCHANGED <<original_word, max_wrong, word, has_eszett>>
    ELSE /\ pc' = "game"
         /\ original_word' = w
         /\ max_wrong' = m
         /\ has_eszett' = eszett_flag(w)
         /\ word' = normalize_word_de(w)

\* game.guess(raw): the sets after it, and the call recorded in `last`
CallGuess(raw) ==
    LET res == guess(raw, word, has_eszett, guessed, wrong)
    IN  /\ guessed' = res.guessed
        /\ wrong' = res.wrong
        /\ last' = [raw |-> raw, applied |-> res.applied, msg |-> res.msg,
                    guessed |-> guessed, wrong |-> wrong]
        /\ calls' = calls + 1
        /\ moves' = IF res.guessed # guessed \/ res.wrong # wrong THEN moves + 1 ELSE moves
        /\ streak' = IF streak.pure /\ LetterMiss(raw, word, streak.letters)
                     THEN [pure |-> TRUE, letters |-> streak.letters \cup {casefold(strip(raw))}]
                     ELSE [pure |-> FALSE, letters |-> {}]

Construct ==
    /\ pc = "init"
    /\ \E ws \in WordSources : \E w \in pick_word(ws) : \E m \in 0..(MaxFrames - 1) :
         NewGame(w, m)
    /\ UNCHANGED <<guessed, wrong, last, calls, moves, streak, nframes, frames, first_draw,
                   draw_arg, drawn, screen, ret>>
    /\ UNCHANGED <<status, text, text_before, passes>>

Guess ==
    /\ pc = "game"
    /\ calls < MaxCalls
    /\ \E raw \in Raws(original_word) : CallGuess(raw)
    /\ UNCHANGED <<pc, original_word, max_wrong, word, has_eszett, nframes, frames,
                   first_draw, draw_arg, drawn, screen, ret>>
    /\ UNCHANGED <<status, text, text_before, passes>>

Next == Construct \/ Guess

Spec == Init /\ [][Next]_vars

-----------------------------------------------------------------------------
(* run_hangman *)

\* word = pick_word(words); game = HangmanGame(word, len(frames) - 1); term = Terminal(frames)
Start ==
    /\ pc = "init"
    /\ \E ws \in WordSources : \E w \in pick_word(ws) : \E n \in 0..MaxFrames :
         /\ nframes' = n
         /\ NewGame(w, n - 1)
         /\ frames' = IF ceiling_rejected(n - 1) THEN frames
                      ELSE terminal_frames(SubSeq(FIGURES, 1, n))
    /\ UNCHANGED <<guessed, wrong, last, calls, moves, streak, first_draw, draw_arg, drawn,
                   screen, ret>>
    /\ UNCHANGED <<status, text, text_before, passes>>

\* the loop going on after the game is won
Turn_after_win ==
    /\ pc = "game"
    /\ ~is_lost
    /\ calls < MaxTurns
    /\ TermDraw(wrong_count)
    /\ \E raw \in Raws(original_word) : CallGuess(raw)
    /\ UNCHANGED <<pc, original_word, max_wrong, word, has_eszett, nframes, frames, ret>>
    /\ status' = format_status(word, guessed, wrong, max_wrong)
    /\ UNCHANGED <<text, text_before, passes>>

\* one pass of the while loop: draw, read a line, guess
Turn ==
    /\ pc = "game"
    /\ ~(is_won \/ is_lost)
    /\ calls < MaxTurns
    /\ TermDraw(wrong_count)
    /\ \E raw \in Raws(original_word) : CallGuess(raw)
    /\ UNCHANGED <<pc, original_word, max_wrong, word, has_eszett, nframes, frames, ret>>
    /\ status' = format_status(word, guessed, wrong, max_wrong)
    /\ UNCHANGED <<text, text_before, passes>>

\* input() raises EOFError or KeyboardInterrupt
Abort ==
    /\ pc = "game"
    /\ ~(is_won \/ is_lost)
    /\ TermDraw(wrong_count)
    /\ ret' = 130
    /\ pc' = "returned"
    /\ UNCHANGED <<original_word, max_wrong, word, has_eszett, guessed, wrong,
                   last, calls, moves, streak, nframes, frames>>
    /\ status' = format_status(word, guessed, wrong, max_wrong)
    /\ UNCHANGED <<text, text_before, passes>>

\* after the loop, the two exit codes taken for each other
Finish_swapped ==
    /\ pc = "game"
    /\ is_won \/ is_lost
    /\ TermDraw(wrong_count)
    /\ ret' = IF is_won THEN 1 ELSE 0
    /\ pc' = "returned"
    /\ UNCHANGED <<original_word, max_wrong, word, has_eszett, guessed, wrong,
                   last, calls, moves, streak, nframes, frames>>
    /\ status' = format_status(word, guessed, wrong, max_wrong)
    /\ UNCHANGED <<text, text_before, passes>>

\* after the loop: the last draw and the exit code
Finish ==
    /\ pc = "game"
    /\ is_won \/ is_lost
    /\ TermDraw(wrong_count)
    /\ ret' = IF is_won THEN 0 ELSE 1
    /\ pc' = "returned"
    /\ UNCHANGED <<original_word, max_wrong, word, has_eszett, guessed, wrong,
                   last, calls, moves, streak, nframes, frames>>
    /\ status' = format_status(word, guessed, wrong, max_wrong)
    /\ UNCHANGED <<text, text_before, passes>>

NextDriver == Start \/ Turn \/ Abort \/ Finish

SpecDriver == Init /\ [][NextDriver]_vars

-----------------------------------------------------------------------------
(* Terminal on its own: one construction, then draw calls *)

\* Terminal(frames) for the first n frames of FIGURES
NewTerminal ==
    /\ pc = "init"
    /\ \E n \in 0..Len(FIGURES) :
         /\ nframes' = n
         /\ frames' = terminal_frames(SubSeq(FIGURES, 1, n))
    /\ pc' = "term"
    /\ UNCHANGED <<original_word, max_wrong, word, has_eszett, guessed, wrong,
                   last, calls, moves, streak, first_draw, draw_arg, drawn, screen, ret>>
    /\ UNCHANGED <<status, text, text_before, passes>>

\* term.draw(c)
Draw ==
    /\ pc \in {"term", "drawn"}
    /\ \E c \in (-MaxCount)..MaxCount :
         /\ TermDraw(c)
         /\ pc' = IF index_error(draw_index(c, Len(frames)), Len(frames))
                  THEN "IndexError" ELSE "drawn"
    /\ UNCHANGED <<original_word, max_wrong, word, has_eszett, guessed, wrong,
                   last, calls, moves, streak, nframes, frames, ret>>
    /\ UNCHANGED <<status, text, text_before, passes>>

NextDraw == NewTerminal \/ Draw

SpecDraw == Init /\ [][NextDraw]_vars

-----------------------------------------------------------------------------
(* normalize_word_de on its own: a string, normalized again and again *)

\* letters in both cases, the umlauts and ß with their capitals, separators
TextChars == { "a", "s", "z", "A", "S", "ä", "Ä", "ö", "ü", "Ü", "ß", "ẞ", "-", " " }

Texts == UNION { [1..n -> TextChars] : n \in 0..MaxText }

InitNorm ==
    /\ pc = "init"
    /\ original_word = <<>>
    /\ max_wrong = 0
    /\ word = <<>>
    /\ has_eszett = FALSE
    /\ guessed = {}
    /\ wrong = {}
    /\ last = NoCall
    /\ calls = 0
    /\ moves = 0
    /\ streak = [pure |-> TRUE, letters |-> {}]
    /\ nframes = 0
    /\ frames = <<>>
    /\ first_draw = TRUE
    /\ draw_arg = -1
    /\ drawn = -1
    /\ screen = <<>>
    /\ status = NoStatus
    /\ ret = -1
    /\ text \in Texts
    /\ text_before = <<>>
    /\ passes = 0

\* text = normalize_word_de(text)
Normalize ==
    /\ passes < 2
    /\ text' = normalize_word_de(text)
    /\ text_before' = text
    /\ passes' = passes + 1
    /\ UNCHANGED <<pc, original_word, max_wrong, word, has_eszett, guessed, wrong,
                   last, calls, moves, streak, nframes, frames, first_draw, draw_arg,
                   drawn, screen, status, ret>>

NextNorm == Normalize

SpecNorm == InitNorm /\ [][NextNorm]_vars

-----------------------------------------------------------------------------
(* Properties *)

Called == pc = "game" /\ calls > 0

\* the input of the latest call, trimmed and case-folded
LastG == casefold(strip(last.raw))

Letters(cs) == { <<c>> : c \in cs }

HasSharpS(w) == \E i \in 1..Len(w) : w[i] \in {"ß", "ẞ"}

\* C1: a guess call that repeats the raw input of the call before it, when
\* that call was applied, returns applied=false with the "already tried"
\* message and leaves guessed and wrong as they were.
C1_RepeatRejected ==
    [][ (pc = "game" /\ calls > 0 /\ last.applied
           /\ calls' = calls + 1 /\ last'.raw = last.raw)
        => (/\ ~last'.applied
            /\ last'.msg = "hattest du schon"
            /\ guessed' = guessed
            /\ wrong' = wrong) ]_vars

\* C2: a guess call returns applied=false exactly when the input is empty or
\* blank, or it is neither a full-word nor an alias guess and its first
\* case-folded character is no letter, or every letter of its letter list
\* was already in guessed or wrong; a call that returns applied=false leaves
\* both sets as they were.
C2_RejectionCases ==
    Called =>
        LET g == LastG
            empty == SaidEmpty(last.raw)
            aliased == SaidAliasLetters(g, has_eszett)
            parsed == ~empty /\ ~SaidFullWord(g)
            nonletter == parsed /\ aliased = {} /\ g[1] \in NonAlpha
            letters == IF aliased # {} THEN aliased ELSE {g[1]}
            seen == parsed /\ ~nonletter
                    /\ Letters(letters) \subseteq (last.guessed \cup last.wrong)
        IN  /\ last.applied <=> ~(empty \/ nonletter \/ seen)
            /\ ~last.applied => (guessed = last.guessed /\ wrong = last.wrong)

\* C2 witness: an alias of two characters rejected as already tried
C2_Witness ==
    /\ Called
    /\ ~last.applied
    /\ Len(last.raw) = 2
    /\ SaidAliasLetters(LastG, has_eszett) # {}
    /\ last.guessed # {}

\* C3: no token of one character is in both guessed and wrong.
C3_Disjoint == \A t \in guessed \cap wrong : Len(t) # 1

\* C3 witness: after an alias that hit with one of its two letters, both
\* sets hold one-character tokens
C3_Witness ==
    /\ Called
    /\ last.applied
    /\ Cardinality(SaidAliasLetters(LastG, has_eszett)) = 2
    /\ Cardinality(guessed) = Cardinality(last.guessed) + 1
    /\ \E t \in wrong : Len(t) = 1
    /\ \E t \in guessed : Len(t) = 1

\* C4: in run_hangman, with a ceiling of at least 1, the game is never both
\* won and lost.
C4_WonXorLost ==
    (pc \in {"game", "returned"} /\ max_wrong >= 1) => ~(is_won /\ is_lost)

\* C4 witness: the game is won with one wrong attempt left
C4_Witness ==
    /\ pc = "game"
    /\ last.applied
    /\ is_won
    /\ wrong_count = max_wrong - 1

\* C5: an applied alias guess (ä/ae, ö/oe, ü/ue, ß/ss/sz) none of whose
\* letters is in the target makes wrong one token larger and leaves guessed;
\* one with a letter in the target leaves wrong and adds to guessed exactly
\* its letters that are in the target.
C5_AliasCounts ==
    (Called /\ last.applied) =>
        LET ls == SaidAliasLetters(LastG, FALSE)
            found == ls \cap SaidTarget(word)
        IN  ls # {} =>
                IF found = {}
                THEN /\ Cardinality(wrong) = Cardinality(last.wrong) + 1
                     /\ guessed = last.guessed
                ELSE /\ wrong = last.wrong
                     /\ guessed = last.guessed \cup Letters(found)

\* C6, as claimed: for every word of the word source, a guess whose input is
\* the word as written, in capitals or in small letters, is applied, leaves
\* wrong as it was and wins the game.
C6_AnyWordWins ==
    (Called /\ last.raw \in CaseVariants(original_word)) =>
        /\ last.applied
        /\ wrong = last.wrong
        /\ Letters(SaidTarget(word)) \subseteq guessed
        /\ is_won

\* C6, amended: the same for every word whose case-folded form has more than
\* 2 characters, all of them letters.
C6_LetterWordWins ==
    (Called /\ last.raw \in CaseVariants(original_word)
       /\ SaidFullWord(casefold(original_word))) =>
        /\ last.applied
        /\ wrong = last.wrong
        /\ Letters(SaidTarget(word)) \subseteq guessed
        /\ is_won

\* C6 witness: a word with ß, typed in capitals as the first guess, wins
C6_Witness ==
    /\ Called
    /\ HasSharpS(original_word)
    /\ last.raw = upper(original_word)
    /\ last.guessed = {}
    /\ last.applied
    /\ is_won

\* C7: a full-word guess whose normalized form is not the target returns
\* applied=true, puts the case-folded input into wrong, makes wrong exactly
\* one token larger and leaves guessed as it was.
C7_WrongWordCounts ==
    (Called /\ SaidFullWord(LastG) /\ normalize_word_de(LastG) # word) =>
        /\ last.applied
        /\ LastG \in wrong
        /\ Cardinality(wrong) = Cardinality(last.wrong) + 1
        /\ guessed = last.guessed

\* C8: has_eszett is true exactly when the original word contains ß; then
\* the guess "z" with s not yet seen is a hit that adds s to guessed and
\* leaves wrong; without ß in the original word "z" is the guess of the
\* letter z.
C8_EszettAlias ==
    pc = "game" =>
        /\ has_eszett <=> HasSharpS(original_word)
        /\ (calls > 0 /\ LastG = <<"z">>) =>
             IF HasSharpS(original_word)
             THEN <<"s">> \notin (last.guessed \cup last.wrong) =>
                    /\ last.applied
                    /\ guessed = last.guessed \cup {<<"s">>}
                    /\ wrong = last.wrong
             ELSE IF <<"z">> \in (last.guessed \cup last.wrong)
                  THEN ~last.applied /\ guessed = last.guessed /\ wrong = last.wrong
                  ELSE IF "z" \in SaidTarget(word)
                  THEN guessed = last.guessed \cup {<<"z">>} /\ wrong = last.wrong
                  ELSE guessed = last.guessed /\ wrong = last.wrong \cup {<<"z">>}

\* C9: after k calls, each the guess of one letter that is not in the target
\* and was not guessed before, wrong has k tokens and the game is lost
\* exactly when k >= max_wrong.
C9_LetterMisses ==
    (pc = "game" /\ streak.pure) =>
        /\ wrong_count = calls
        /\ is_lost <=> calls >= max_wrong

\* C9 witness: the second such guess reaches a ceiling of 2
C9_Witness ==
    /\ pc = "game"
    /\ streak.pure
    /\ calls = 2
    /\ max_wrong = 2
    /\ is_lost

\* C10: run_hangman with 0 or 1 frames ends in the ValueError of the
\* constructor: there is no game, no guess is made, nothing is returned.
C10_NoGameBelowOne ==
    (pc # "init" /\ nframes <= 1) =>
        /\ pc = "ValueError"
        /\ calls = 0
        /\ ret = -1
        /\ guessed = {} /\ wrong = {} /\ word = <<>> /\ max_wrong = 0

\* C10 witness: one frame, a ceiling of 0, refused
C10_Witness == pc = "ValueError" /\ nframes = 1

\* C11: for n >= 1 frames, draw(c) writes the frame at index
\* min(max(c, 0), n - 1): the frames in their order for c in 0..n-1, the last
\* frame for every c above n - 1; the padded frames differ from one another.
C11_FrameSelected ==
    (pc \in {"drawn", "IndexError"} /\ Len(frames) >= 1) =>
        LET n == Len(frames)
            c == draw_arg
            k == IF c < 0 THEN 0 ELSE IF c > n - 1 THEN n - 1 ELSE c
        IN  /\ pc = "drawn"
            /\ drawn = k
            /\ screen = pad(frames[k + 1], height(frames))
            /\ c > n - 1 => screen = pad(frames[n], height(frames))
            /\ \A i, j \in 1..n :
                 i # j => pad(frames[i], height(frames)) # pad(frames[j], height(frames))

\* C11 witness: with all frames of FIGURES, a count above the last index
\* shows the last frame and not the one before it
C11_Witness ==
    /\ pc = "drawn"
    /\ Len(frames) = Len(FIGURES)
    /\ draw_arg > Len(frames) - 1
    /\ drawn = Len(frames) - 1
    /\ screen # pad(frames[Len(frames) - 1], height(frames))

\* C12: normalizing a normalized string changes nothing, and a normalized
\* string holds none of ä, ö, ü, ß.
C12_Idempotent ==
    /\ passes = 2 => text = text_before
    /\ passes >= 1 => \A i \in 1..Len(text) : text[i] \notin {"ä", "ö", "ü", "ß"}

\* C12 witness: a string with capital umlauts and ß, normalized
\* twice, is longer than it was
C12_Witness ==
    /\ passes = 2
    /\ Len(text) = 6
    /\ text[1] = "a" /\ text[3] = "s" /\ text[5] = "u"

\* the status block was written
Shown == pc \in {"game", "returned"} /\ drawn # -1

\* the guessed letters when the status block was written: before the guess of
\* a loop pass, or at the end of run_hangman
ShownGuessed == IF pc = "returned" THEN guessed ELSE last.guessed

ShownWrong == IF pc = "returned" THEN wrong ELSE last.wrong

\* C13: the masked word holds, for each character of the normalized target
\* in order, the character if it is a guessed letter or no letter, and "_" if
\* it is a letter not guessed; it shows no "_" for a letter exactly when the
\* game is won.
C13_MaskedWord ==
    Shown =>
        LET m == status.Wort
            n == Len(word)
            item(i) == m[2 * i - 1]
        IN  /\ Len(m) = IF n = 0 THEN 0 ELSE 2 * n - 1
            /\ \A i \in 1..n :
                 item(i) = IF word[i] \in NonAlpha THEN word[i]
                           ELSE IF <<word[i]>> \in ShownGuessed THEN word[i]
                           ELSE "_"
            /\ \A i \in 1..(n - 1) : m[2 * i] = " "
            /\ (\A i \in 1..n : word[i] \notin NonAlpha => item(i) # "_")
                 <=> Letters(SaidTarget(word)) \subseteq ShownGuessed

\* C13 witness: a word with a hyphen, shown with a letter and a placeholder
C13_Witness ==
    /\ Shown
    /\ \E i \in 1..Len(word) : word[i] = "-" /\ status.Wort[2 * i - 1] = "-"
    /\ \E i \in 1..Len(word) : status.Wort[2 * i - 1] = "_"
    /\ \E i \in 1..Len(word) : word[i] # "-" /\ status.Wort[2 * i - 1] = word[i]

\* C14: run_hangman calls guess only while the game is neither won nor lost;
\* it returns 0 only if the game is won, 1 only if it is lost and not won,
\* and 130 only if the input was interrupted while it was neither.
C14_LoopAndExitCodes ==
    [][ /\ calls' # calls => ~(is_won \/ is_lost)
        /\ ret' = 0 => is_won'
        /\ ret' = 1 => (is_lost' /\ ~is_won')
        /\ ret' = 130 => ~(is_won' \/ is_lost') ]_vars

\* C14 witness: the loop has ended on a lost game and returned 1
C14_Witness ==
    /\ pc = "returned"
    /\ ret = 1
    /\ calls > 0
    /\ is_lost

\* C15: a guess call only adds to guessed and to wrong, and the normalized
\* word, the eszett flag and max_wrong stay as constructed; so a game that is
\* won stays won and a game that is lost stays lost.
C15_OnlyGrows ==
    [][ pc = "game" =>
          /\ guessed \subseteq guessed'
          /\ wrong \subseteq wrong'
          /\ word' = word /\ has_eszett' = has_eszett /\ max_wrong' = max_wrong
          /\ is_won => is_won'
          /\ is_lost => is_lost' ]_vars

\* C15 witness: a guess applied to a game that was already lost, with tokens
\* recorded before it
C15_Witness ==
    /\ Called
    /\ last.applied
    /\ Cardinality(last.wrong) >= max_wrong
    /\ last.wrong # wrong
    /\ last.guessed # {}
    /\ is_lost

\* the letter list the input raw stands for, {} when raw is empty, a
\* full-word guess or starts with no letter
SaidLetters(raw, flag) ==
    LET g == casefold(strip(raw))
    IN  IF g = <<>> \/ SaidFullWord(g) THEN {}
        ELSE IF SaidAliasLetters(g, flag) # {} THEN SaidAliasLetters(g, flag)
        ELSE IF g[1] \in NonAlpha THEN {}
        ELSE {g[1]}

\* C16: after a guess with letter list L was recorded as a miss, the next
\* guess does not make wrong larger when it has the same letter list L or is
\* the guess of one letter of L.
C16_NotChargedTwice ==
    [][ (/\ Called
         /\ last.applied
         /\ Cardinality(wrong) = Cardinality(last.wrong) + 1
         /\ SaidLetters(last.raw, has_eszett) # {}
         /\ calls' = calls + 1
         /\ SaidLetters(last'.raw, has_eszett) # {}
         /\ \/ SaidLetters(last'.raw, has_eszett) = SaidLetters(last.raw, has_eszett)
            \/ /\ Len(strip(last'.raw)) = 1
               /\ SaidLetters(last'.raw, has_eszett) \subseteq SaidLetters(last.raw, has_eszett))
        => Cardinality(wrong') = Cardinality(wrong) ]_vars

\* C17: a guess call that returns applied=true has changed guessed or wrong.
C17_AppliedChanges ==
    (Called /\ last.applied) => (guessed # last.guessed \/ wrong # last.wrong)

C19_WithinCeiling ==
    pc \in {"game", "returned"} =>
        /\ wrong_count <= max_wrong
        /\ Cardinality(wrong) <= Cardinality(last.wrong) + 1
        /\ Shown =>
             /\ status.Uebrig >= 0
             /\ status.Uebrig = max_wrong - Cardinality(ShownWrong)
             /\ draw_arg \in 0..max_wrong
             /\ drawn = draw_arg

\* C19 witness: the last status block of a lost game shows 0 attempts left
\* and the last frame
C19_Witness ==
    /\ pc = "returned"
    /\ ret = 1
    /\ wrong_count = max_wrong
    /\ status.Uebrig = 0
    /\ drawn = nframes - 1
    /\ max_wrong >= 2

\* the different letters of the normalized word
Distinct == Cardinality(SaidTarget(word))

\* C20: run_hangman makes at most Distinct + max_wrong - 1 guesses that
\* change guessed or wrong, and after that many the game is won or lost.
C20_ProgressBound ==
    pc \in {"game", "returned"} =>
        /\ moves <= Distinct + max_wrong - 1
        /\ moves = Distinct + max_wrong - 1 => (is_won \/ is_lost)

\* C20 witness: the bound is met, by a game won on its last wrong attempt left
C20_Witness ==
    /\ pc = "game"
    /\ max_wrong >= 2
    /\ Distinct >= 2
    /\ moves = Distinct + max_wrong - 1
    /\ moves = calls
    /\ is_won

====
